---- MODULE Spec2Model ----
(***************************************************************************)
(* Model of the browser benchmark runner in src/python/main.py:           *)
(* run_single_session (one timed start / navigate / stop cycle that folds *)
(* every failure into a record) and main (warmup loop, measured loop,     *)
(* JSONL append, success / failure tally).                                *)
(*                                                                         *)
(* A Python value that may be None is modelled as a sequence of length    *)
(* at most one: None is << >> and a present value v is <<v>>.             *)
(***************************************************************************)
EXTENDS Integers, Sequences, FiniteSets

\* ---------------------------------------------------------------- bounds
MaxWarmup == 1
MaxRuns == 2
MaxMs == 1
MaxPrior == 1

\* Messages of the errors the provider client can fail with (str(e)).
ErrorMessages == {"boom", "timeout"}

\* ---------------------------------------------------------------- values
None == << >>
Some(x) == <<x>>

PROVIDER == "BROWSER_USE"

VARIABLES
    warmup,     \* args.warmup
    runs,       \* args.runs
    pc,         \* position of the single thread of control
    mode,       \* which loop called run_single_session: "warmup" / "run"
    i,          \* loop variable of the active for loop
    calls,      \* number of run_single_session calls so far (stands for uuid4)
    stage,      \* run_single_session: stage cursor
    browser,    \* run_single_session: None or the Browser object
    record,     \* run_single_session: the record under construction
    exc,        \* exception propagating out of the try statement, or None
    success,    \* main: success counter
    failure,    \* main: failure counter
    out_file,   \* lines of the JSONL output file
    stdout,     \* lines printed so far
    prior,      \* content of the output file when the batch started
    log,        \* provider side: operations of the current call and outcomes
    inflight    \* provider side: sessions started whose stop has not returned

vars == <<warmup, runs, pc, mode, i, calls, stage, browser, record, exc,
          success, failure, out_file, stdout, prior, log, inflight>>

\* ------------------------------------------------------- run_single_session
NewRecord(id, provider_label) ==
    [ id                  |-> id,
      session_creation_ms |-> None,
      session_connect_ms  |-> None,
      page_goto_ms        |-> None,
      session_release_ms  |-> None,
      provider            |-> provider_label,
      success             |-> FALSE,
      error_stage         |-> None,
      error_message       |-> None ]

\* except Exception: which provider errors the handlers catch.
Catches_narrow(e) == e = "timeout"
Catches(e) == e \in ErrorMessages

\* Handler of the guarded block (lines 58-60).
OnError_nomsg(rec, stg, e) == [rec EXCEPT !.error_stage = Some(stg)]
OnError(rec, stg, e) ==
    [rec EXCEPT !.error_stage = Some(stg), !.error_message = Some(e)]

\* Handler of the teardown block (lines 68-71).
OnReleaseError_swallow(rec, stg, e) == rec
OnReleaseError_overwrite(rec, stg, e) ==
    [rec EXCEPT !.error_stage = Some(stg), !.error_message = Some(e)]
OnReleaseError(rec, stg, e) ==
    IF rec.error_stage = None
    THEN [rec EXCEPT !.error_stage = Some(stg), !.error_message = Some(e)]
    ELSE rec

\* Condition of the finally block (line 62).
ShouldRelease_onlyOnSuccess == browser # None /\ record.success
ShouldRelease == browser # None

\* Entry of run_single_session (lines 30-44), called from loop m.
Call(m) ==
    /\ mode' = m
    /\ calls' = calls + 1
    /\ stage' = "init"
    /\ browser' = None
    /\ record' = NewRecord(calls + 1, PROVIDER)
    /\ exc' = None
    /\ log' = << >>
    /\ pc' = "create"

\* A provider error e raised in the guarded block while the cursor is stg.
Raise(stg, e) ==
    IF Catches(e)
    THEN record' = OnError(record, stg, e) /\ exc' = exc
    ELSE record' = record /\ exc' = Some(e)

\* Lines 47-48: stage = "session_create"; browser = Browser(use_cloud=True)
CreateOk ==
    /\ pc = "create"
    /\ stage' = "session_create"
    /\ browser' = Some(calls)
    /\ log' = Append(log, [op |-> "new", res |-> "ok"])
    /\ pc' = "start"
    /\ UNCHANGED <<warmup, runs, mode, i, calls, record, exc, success, failure,
                   out_file, stdout, prior, inflight>>

CreateFail_late ==
    /\ pc = "create"
    /\ \E e \in ErrorMessages :
          /\ Raise(stage, e)
          /\ log' = Append(log, [op |-> "new", res |-> e])
    /\ stage' = "session_create"
    /\ pc' = "finally"
    /\ UNCHANGED <<warmup, runs, mode, i, calls, browser, success, failure,
                   out_file, stdout, prior, inflight>>

CreateFail ==
    /\ pc = "create"
    /\ stage' = "session_create"
    /\ \E e \in ErrorMessages :
          /\ Raise(stage', e)
          /\ log' = Append(log, [op |-> "new", res |-> e])
    /\ pc' = "finally"
    /\ UNCHANGED <<warmup, runs, mode, i, calls, browser, success, failure,
                   out_file, stdout, prior, inflight>>

\* Lines 49-51: await browser.start() returns.
StartOk ==
    /\ pc = "start"
    /\ \E ms \in 0..MaxMs :
          record' = [record EXCEPT !.session_creation_ms = Some(ms)]
    /\ log' = Append(log, [op |-> "start", res |-> "ok"])
    /\ inflight' = inflight \cup {browser[1]}
    /\ pc' = "navigate"
    /\ UNCHANGED <<warmup, runs, mode, i, calls, stage, browser, exc, success,
                   failure, out_file, stdout, prior>>

StartFail_timed ==
    /\ pc = "start"
    /\ \E e \in ErrorMessages, ms \in 0..MaxMs :
          /\ record' = OnError([record EXCEPT !.session_creation_ms = Some(ms)],
                               stage, e)
          /\ exc' = exc
          /\ log' = Append(log, [op |-> "start", res |-> e])
    /\ inflight' = inflight \cup {browser[1]}
    /\ pc' = "finally"
    /\ UNCHANGED <<warmup, runs, mode, i, calls, stage, browser, success,
                   failure, out_file, stdout, prior>>

\* Lines 49-50, 58-60: await browser.start() fails.
StartFail ==
    /\ pc = "start"
    /\ \E e \in ErrorMessages :
          /\ Raise(stage, e)
          /\ log' = Append(log, [op |-> "start", res |-> e])
    /\ inflight' = inflight \cup {browser[1]}
    /\ pc' = "finally"
    /\ UNCHANGED <<warmup, runs, mode, i, calls, stage, browser, success,
                   failure, out_file, stdout, prior>>

\* Lines 53-57: await browser.navigate_to(url) returns.
NavigateOk ==
    /\ pc = "navigate"
    /\ stage' = "page_goto"
    /\ \E ms \in 0..MaxMs :
          record' = [record EXCEPT !.page_goto_ms = Some(ms), !.success = TRUE]
    /\ log' = Append(log, [op |-> "navigate", res |-> "ok"])
    /\ pc' = "finally"
    /\ UNCHANGED <<warmup, runs, mode, i, calls, browser, exc, success, failure,
                   out_file, stdout, prior, inflight>>

NavigateFail_timed ==
    /\ pc = "navigate"
    /\ stage' = "page_goto"
    /\ \E e \in ErrorMessages, ms \in 0..MaxMs :
          /\ record' = OnError([record EXCEPT !.page_goto_ms = Some(ms)],
                               stage', e)
          /\ exc' = exc
          /\ log' = Append(log, [op |-> "navigate", res |-> e])
    /\ pc' = "finally"
    /\ UNCHANGED <<warmup, runs, mode, i, calls, browser, success, failure,
                   out_file, stdout, prior, inflight>>

\* Lines 53-55, 58-60: await browser.navigate_to(url) fails.
NavigateFail ==
    /\ pc = "navigate"
    /\ stage' = "page_goto"
    /\ \E e \in ErrorMessages :
          /\ Raise(stage', e)
          /\ log' = Append(log, [op |-> "navigate", res |-> e])
    /\ pc' = "finally"
    /\ UNCHANGED <<warmup, runs, mode, i, calls, browser, success, failure,
                   out_file, stdout, prior, inflight>>

\* Lines 61-62: finally with nothing to release.
NoRelease ==
    /\ pc = "finally"
    /\ ~ShouldRelease
    /\ pc' = "return"
    /\ UNCHANGED <<warmup, runs, mode, i, calls, stage, browser, record, exc,
                   success, failure, out_file, stdout, prior, log, inflight>>

\* Lines 62-67: await browser.stop() returns.
StopOk ==
    /\ pc = "finally"
    /\ ShouldRelease
    /\ stage' = "session_release"
    /\ \E ms \in 0..MaxMs :
          record' = [record EXCEPT !.session_release_ms = Some(ms)]
    /\ log' = Append(log, [op |-> "stop", res |-> "ok"])
    /\ inflight' = inflight \ {browser[1]}
    /\ pc' = "return"
    /\ UNCHANGED <<warmup, runs, mode, i, calls, browser, exc, success, failure,
                   out_file, stdout, prior>>

\* Lines 62-66, 68-71: await browser.stop() fails.
StopFail ==
    /\ pc = "finally"
    /\ ShouldRelease
    /\ stage' = "session_release"
    /\ \E e \in ErrorMessages :
          /\ IF Catches(e)
             THEN record' = OnReleaseError(record, stage', e) /\ exc' = exc
             ELSE record' = record /\ exc' = Some(e)
          /\ log' = Append(log, [op |-> "stop", res |-> e])
    /\ inflight' = inflight \ {browser[1]}
    /\ pc' = "return"
    /\ UNCHANGED <<warmup, runs, mode, i, calls, browser, success, failure,
                   out_file, stdout, prior>>

\* ------------------------------------------------------------------- main
\* Lines 120-123: one more warmup iteration.
WarmupIter ==
    /\ pc = "warmup"
    /\ i <= warmup
    /\ stdout' = Append(stdout, [kind |-> "warmup", i |-> i])
    /\ Call("warmup")
    /\ UNCHANGED <<warmup, runs, i, success, failure, out_file, prior, inflight>>

\* Lines 123-125: the warmup call comes back; its result is dropped.
WarmupReturn_persist ==
    /\ pc = "return"
    /\ mode = "warmup"
    /\ out_file' = Append(out_file, record)
    /\ exc' = None
    /\ i' = i + 1
    /\ pc' = "warmup"
    /\ UNCHANGED <<warmup, runs, mode, calls, stage, browser, record, success,
                   failure, stdout, prior, log, inflight>>

WarmupReturn ==
    /\ pc = "return"
    /\ mode = "warmup"
    /\ IF exc # None /\ ~Catches(exc[1])
       THEN pc' = "crashed" /\ UNCHANGED <<i, exc>>
       ELSE pc' = "warmup" /\ i' = i + 1 /\ exc' = None
    /\ UNCHANGED <<warmup, runs, mode, calls, stage, browser, record, success,
                   failure, out_file, stdout, prior, log, inflight>>

\* Lines 120, 127-129: the warmup loop is exhausted.
WarmupEnd ==
    /\ pc = "warmup"
    /\ i > warmup
    /\ success' = 0
    /\ failure' = 0
    /\ i' = 1
    /\ pc' = "runs"
    /\ UNCHANGED <<warmup, runs, mode, calls, stage, browser, record, exc,
                   out_file, stdout, prior, log, inflight>>

\* Lines 129-131: one more measured iteration.
RunIter ==
    /\ pc = "runs"
    /\ i <= runs
    /\ stdout' = Append(stdout, [kind |-> "run", i |-> i])
    /\ Call("run")
    /\ UNCHANGED <<warmup, runs, i, success, failure, out_file, prior, inflight>>

RunReturn_miscount ==
    /\ pc = "return"
    /\ mode = "run"
    /\ out_file' = Append(out_file, record)
    /\ stdout' = Append(stdout, [kind |-> "record", record |-> record])
    /\ IF record.error_stage = None
       THEN success' = success + 1 /\ failure' = failure
       ELSE failure' = failure + 1 /\ success' = success
    /\ i' = i + 1
    /\ pc' = "runs"
    /\ UNCHANGED <<warmup, runs, mode, calls, stage, browser, record, exc,
                   prior, log, inflight>>

\* Lines 131-138: the measured call comes back; persist, echo and count.
RunReturn ==
    /\ pc = "return"
    /\ mode = "run"
    /\ IF exc # None
       THEN /\ pc' = "crashed"
            /\ UNCHANGED <<i, success, failure, out_file, stdout>>
       ELSE /\ out_file' = Append(out_file, record)
            /\ stdout' = Append(stdout, [kind |-> "record", record |-> record])
            /\ IF record.success
               THEN success' = success + 1 /\ failure' = failure
               ELSE failure' = failure + 1 /\ success' = success
            /\ i' = i + 1
            /\ pc' = "runs"
    /\ UNCHANGED <<warmup, runs, mode, calls, stage, browser, record, exc,
                   prior, log, inflight>>

\* Lines 129, 140: the measured loop is exhausted; print the tally.
Tally ==
    /\ pc = "runs"
    /\ i > runs
    /\ stdout' = Append(stdout, [kind |-> "tally", success |-> success,
                                 failure |-> failure])
    /\ pc' = "done"
    /\ UNCHANGED <<warmup, runs, mode, i, calls, stage, browser, record, exc,
                   success, failure, out_file, prior, log, inflight>>

\* A line left in the output file by an earlier batch.
PriorLine ==
    [NewRecord(0, PROVIDER) EXCEPT !.session_creation_ms = Some(0),
                                   !.page_goto_ms = Some(0),
                                   !.session_release_ms = Some(0),
                                   !.success = TRUE]

PriorFiles == {[k \in 1..n |-> PriorLine] : n \in 0..MaxPrior}

Init ==
    /\ warmup \in 0..MaxWarmup
    /\ runs \in 0..MaxRuns
    /\ prior \in PriorFiles
    /\ out_file = prior
    /\ stdout = << >>
    /\ pc = "warmup"
    /\ mode = "warmup"
    /\ i = 1
    /\ calls = 0
    /\ stage = "init"
    /\ browser = None
    /\ record = NewRecord(0, PROVIDER)
    /\ exc = None
    /\ success = 0
    /\ failure = 0
    /\ log = << >>
    /\ inflight = {}

Next ==
    \/ WarmupIter
    \/ WarmupReturn
    \/ WarmupEnd
    \/ RunIter
    \/ RunReturn
    \/ Tally
    \/ CreateOk
    \/ CreateFail
    \/ StartOk
    \/ StartFail
    \/ NavigateOk
    \/ NavigateFail
    \/ NoRelease
    \/ StopOk
    \/ StopFail

Spec == Init /\ [][Next]_vars

\* Every provider operation eventually returns or fails and the event loop
\* keeps running the single task, so an enabled step is eventually taken.
FairSpec == Init /\ [][Next]_vars /\ WF_vars(Next)

\* ------------------------------------------------------------ properties
\* The record of the current call is complete and about to be handed back.
Returned == pc = "return" /\ exc = None

\* Outcome of provider operation op in the current call: "none" when it was
\* not attempted, "ok", or the message of the error it failed with.
Outcome(op) ==
    IF \E k \in 1..Len(log) : log[k].op = op
    THEN log[CHOOSE k \in 1..Len(log) : log[k].op = op].res
    ELSE "none"

Failed(op) == Outcome(op) \in ErrorMessages

\* Stage a provider operation belongs to.
StageOf(op) ==
    CASE op = "new"      -> "session_create"
      [] op = "start"    -> "session_create"
      [] op = "navigate" -> "page_goto"
      [] op = "stop"     -> "session_release"

Failures == {k \in 1..Len(log) : log[k].res # "ok"}
FirstFailure == log[CHOOSE k \in Failures : \A m \in Failures : k <= m]

\* Number of measured iterations whose record has been handed back to main.
Measured == IF pc \in {"runs", "done"} \/ mode = "run" THEN i - 1 ELSE 0

\* Lines appended to the output file by this batch.
Appended == SubSeq(out_file, Len(prior) + 1, Len(out_file))

EchoedLines == SelectSeq(stdout, LAMBDA l : l.kind = "record")
Echoed == [k \in 1..Len(EchoedLines) |-> EchoedLines[k].record]

\* C1 as stated: a returned record has success == true exactly when
\* error_stage and error_message are both null.
C1_Original ==
    Returned =>
        (record.success <=>
            (record.error_stage = None /\ record.error_message = None))

\* C1 amended: a returned record has success == true exactly when
\* error_stage is null or session_release (a stop failure after a successful
\* navigation is recorded without clearing success); error_stage is null
\* exactly when error_message is null.
C1_SuccessIffNoBodyError ==
    Returned =>
        /\ record.success <=>
              record.error_stage \in {None, Some("session_release")}
        /\ record.error_stage = None <=> record.error_message = None
        /\ record.error_stage = Some("session_release") => record.success

C1_Witness ==
    /\ Returned
    /\ record.success
    /\ record.error_stage = Some("session_release")
    /\ record.error_message # None

\* The case of C2: start and navigate succeeded, stop failed.
StopFailedAfterSuccess ==
    /\ Returned
    /\ Outcome("start") = "ok"
    /\ Outcome("navigate") = "ok"
    /\ Failed("stop")

\* C2 as stated: when start and navigate succeed and stop fails, the record
\* has success == true, error_stage null and session_release_ms null.
C2_Original ==
    StopFailedAfterSuccess =>
        /\ record.success
        /\ record.error_stage = None
        /\ record.session_release_ms = None

\* C2 amended: when start and navigate succeed and stop fails, the record
\* has success == true, error_stage == session_release, error_message the
\* message of the stop error, and session_release_ms null.
C2_StopFailureRecorded ==
    StopFailedAfterSuccess =>
        /\ record.success
        /\ record.error_stage = Some("session_release")
        /\ record.error_message = Some(Outcome("stop"))
        /\ record.session_release_ms = None

C2_Witness ==
    /\ StopFailedAfterSuccess
    /\ mode = "run"
    /\ record.session_creation_ms # None
    /\ record.page_goto_ms # None

ExactlyOneNull(a, b) == (a = None) # (b = None)

\* C3 as stated: when error_stage is session_create or page_goto, exactly
\* one of session_creation_ms and page_goto_ms is null, and the failing
\* stage's field and every later timing field (session_release_ms included)
\* are null.
C3_Original ==
    Returned /\ record.error_stage \in {Some("session_create"), Some("page_goto")} =>
        /\ ExactlyOneNull(record.session_creation_ms, record.page_goto_ms)
        /\ record.page_goto_ms = None
        /\ record.session_release_ms = None
        /\ record.error_stage = Some("session_create") =>
              record.session_creation_ms = None

\* C3 amended: when error_stage is page_goto, exactly one of the two fields
\* is null (page_goto_ms; session_creation_ms is set); when error_stage is
\* session_create both are null.  The failing stage's field and page_goto_ms
\* are null in both cases.  session_release_ms is independent of the failing
\* stage: it is set exactly when stop was attempted and succeeded.
C3_TimingNulls ==
    Returned /\ record.error_stage \in {Some("session_create"), Some("page_goto")} =>
        /\ record.page_goto_ms = None
        /\ record.error_stage = Some("page_goto") =>
              /\ record.session_creation_ms # None
              /\ ExactlyOneNull(record.session_creation_ms, record.page_goto_ms)
        /\ record.error_stage = Some("session_create") =>
              record.session_creation_ms = None
        /\ record.session_release_ms # None <=> Outcome("stop") = "ok"

C3_Witness ==
    /\ Returned
    /\ record.error_stage = Some("session_create")
    /\ record.session_creation_ms = None
    /\ record.page_goto_ms = None
    /\ record.session_release_ms # None

\* C4: first error wins.  error_stage and error_message of the returned
\* record are the stage and message of the first operation that failed; a
\* stop failure after an earlier error changes neither, a stop failure with
\* no earlier error is recorded as session_release; with no failure both
\* stay null.
C4_FirstErrorWins ==
    Returned =>
        IF Failures = {}
        THEN record.error_stage = None /\ record.error_message = None
        ELSE /\ record.error_stage = Some(StageOf(FirstFailure.op))
             /\ record.error_message = Some(FirstFailure.res)

C4_Witness ==
    /\ Returned
    /\ Failed("navigate")
    /\ Failed("stop")
    /\ Outcome("stop") # Outcome("navigate")
    /\ record.error_stage = Some("page_goto")
    /\ record.error_message = Some(Outcome("navigate"))

\* C5: when start fails, whatever stop does afterwards, the record has
\* error_stage == session_create, success == false, and session_creation_ms
\* and page_goto_ms null.
C5_StartFailure ==
    Returned /\ Failed("start") =>
        /\ record.error_stage = Some("session_create")
        /\ record.error_message = Some(Outcome("start"))
        /\ ~record.success
        /\ record.session_creation_ms = None
        /\ record.page_goto_ms = None

C5_Witness ==
    /\ Returned
    /\ Failed("start")
    /\ Failed("stop")
    /\ Outcome("stop") # Outcome("start")

\* C6: the batch appends one line per measured iteration, in iteration
\* order, after the lines the file already held, which stay as they were;
\* warmup iterations append nothing; a complete batch has appended exactly
\* runs lines.
C6_AppendOnly ==
    /\ Len(out_file) = Len(prior) + Measured
    /\ SubSeq(out_file, 1, Len(prior)) = prior
    /\ Appended = Echoed
    /\ \A k \in 1..Len(Appended) : Appended[k].id = warmup + k
    /\ pc = "done" => Len(Appended) = runs

C6_Witness ==
    /\ pc = "done"
    /\ warmup >= 1
    /\ runs >= 2
    /\ Len(prior) >= 1
    /\ Len(Appended) = runs
    /\ \E k \in 1..Len(Appended) : ~Appended[k].success
    /\ \E k \in 1..Len(Appended) : Appended[k].success

Count(seq, P(_)) == Cardinality({k \in 1..Len(seq) : P(seq[k])})
IsSuccess(r) == r.success
IsFailure(r) == ~r.success

\* C7: the counters always equal the numbers of measured records with
\* success true and false; warmup iterations change neither and neither
\* ever decreases; the tally printed at the end shows them, and they add up
\* to runs.
C7_Tally ==
    /\ [](/\ success = Count(Appended, IsSuccess)
          /\ failure = Count(Appended, IsFailure)
          /\ pc = "done" =>
                /\ stdout[Len(stdout)] = [kind |-> "tally", success |-> success,
                                          failure |-> failure]
                /\ success + failure = runs)
    /\ [][/\ success' >= success
          /\ failure' >= failure
          /\ mode = "warmup" /\ mode' = "warmup" =>
                success' = success /\ failure' = failure]_vars

C7_Witness ==
    /\ pc = "done"
    /\ warmup >= 1
    /\ runs = 2
    /\ success = 1
    /\ failure = 1

\* C8: run_single_session never raises and main never stops early; every
\* batch reaches the final tally after exactly warmup + runs calls.
C8_AlwaysCompletes ==
    /\ [](exc = None /\ pc # "crashed")
    /\ [](pc = "done" => calls = warmup + runs)
    /\ <>(pc = "done")

C8_Witness ==
    /\ pc = "done"
    /\ calls = warmup + runs
    /\ warmup >= 1
    /\ failure = runs
    /\ runs >= 2

\* C9: a call that requested a start has attempted a stop by the time it
\* returns, that stop has come back before the next call starts a session,
\* and at most one session is in flight at any time.
C9_OneSessionInFlight ==
    /\ Cardinality(inflight) <= 1
    /\ inflight # {} => browser # None /\ inflight = {browser[1]}
    /\ pc \in {"warmup", "runs", "create", "start", "return", "done"} =>
          inflight = {}
    /\ pc = "return" /\ Outcome("start") # "none" => Outcome("stop") # "none"

C9_Witness ==
    /\ pc = "return"
    /\ calls >= 2
    /\ mode = "run"
    /\ warmup >= 1
    /\ Failed("start")
    /\ Outcome("stop") # "none"
    /\ inflight = {}

\* C10: error_stage is never "init": it is null, session_create, page_goto
\* or session_release, and the cursor has left "init" before anything
\* has been attempted.
C10_NeverInit ==
    /\ record.error_stage \in {None, Some("session_create"),
                               Some("page_goto"), Some("session_release")}
    /\ log # << >> => stage # "init"
    /\ \A k \in 1..Len(Appended) : Appended[k].error_stage # Some("init")

C10_Witness ==
    /\ Returned
    /\ Failed("new")
    /\ browser = None
    /\ record.error_stage = Some("session_create")

====
